---- MODULE Spec2Model ----
(***************************************************************************)
(* Model of the Loopia Terraform provider: the provider root (credential   *)
(* resolution), the zone-record and subdomain resources and the four data  *)
(* sources.  Every handler is one operator computed from the outcomes of   *)
(* the remote client calls it makes; the remote service and the host's     *)
(* state store are the environment.                                        *)
(***************************************************************************)
EXTENDS Integers, Sequences, FiniteSets, TLC

VARIABLES
    remoteRecords,     \* zone records held by the remote service
    nextId,            \* next record identifier the remote service assigns
    idHigh,            \* high word of the identifiers the service assigns
    remoteSubdomains,  \* subdomains held by the remote service: <<domain, name>>
    zoneState,         \* host state of each loopia_zone_record resource
    subState,          \* host state of the loopia_subdomain resource
    resp,              \* what the last handler invocation did
    declared,          \* the resources and data sources the configuration declares
    config,            \* provider configuration block (username, password)
    env,               \* LOOPIA_USERNAME / LOOPIA_PASSWORD of the process
    presp              \* what the last provider Configure did

vars == <<remoteRecords, nextId, idHigh, remoteSubdomains, zoneState, subState, resp,
          declared, config, env, presp>>

crudVars == <<remoteRecords, nextId, idHigh, remoteSubdomains, zoneState, subState,
              resp>>
providerVars == <<declared, config, env, presp>>

----------------------------------------------------------------------------
(* Bounds and input sets *)

\* identifiers the remote service hands out in one run
MaxId == 2

Domains == {"d1", "d2"}
SubNames == {"s1", "s2"}
ZoneResources == {"r1", "r2"}

----------------------------------------------------------------------------
(* Values *)

\* An optional value: <<>> is absent (nil, null state), <<v>> is present.
Absent == <<>>
Some(v) == <<v>>

\* A framework attribute value (types.Int32, types.String).
Known(v) == [kind |-> "known", v |-> v]
UnknownInt32 == [kind |-> "unknown", v |-> 0]
NullString == [kind |-> "null", v |-> ""]
UnknownString == [kind |-> "unknown", v |-> ""]

IsNull(a) == a.kind = "null"
IsUnknown(a) == a.kind = "unknown"
ValueString(a) == a.v
\* the zero value when the attribute is null or unknown
ValueInt32(a) == IF a.kind = "known" THEN a.v ELSE 0

\* Go's int and int64 are 64 bits wide: <<hi, lo>> stands for hi * 2^31 + lo
\* with 0 <= lo < 2^31.  An int32 is a plain integer.
int64(v) == IF v >= 0 THEN <<0, v>> ELSE <<-1, (v + 2147483647) + 1>>
int(v) == int64(v)
\* the narrowing conversion keeps the low 32 bits
int32(w) == IF w[1] % 2 = 0 THEN w[2] ELSE (w[2] - 2147483647) - 1

\* all orders in which the entries of a finite set can be listed
Perms(S) ==
    {f \in [1..Cardinality(S) -> S] : \A i, j \in 1..Cardinality(S) : f[i] = f[j] => i = j}

----------------------------------------------------------------------------
(* Zone-record resource: conversions *)

toClientRecord(m) ==
    [ID       |-> int64(ValueInt32(m.RecordId)),
     TTL      |-> int(ValueInt32(m.Ttl)),
     Type     |-> m.Type,
     Value    |-> m.Value,
     Priority |-> int(ValueInt32(m.Priority))]

\* a plausible slip: the identifier is not copied
recordModelFromClient_NoId(rec) ==
    [Type     |-> rec.Type,
     Ttl      |-> Known(int32(rec.TTL)),
     Priority |-> Known(int32(rec.Priority)),
     Value    |-> rec.Value,
     RecordId |-> Known(0)]

\* a plausible slip: priority copied from the ttl
recordModelFromClient_PriorityFromTtl(rec) ==
    [Type     |-> rec.Type,
     Ttl      |-> Known(int32(rec.TTL)),
     Priority |-> Known(int32(rec.TTL)),
     Value    |-> rec.Value,
     RecordId |-> Known(int32(rec.ID))]

recordModelFromClient(rec) ==
    [Type     |-> rec.Type,
     Ttl      |-> Known(int32(rec.TTL)),
     Priority |-> Known(int32(rec.Priority)),
     Value    |-> rec.Value,
     RecordId |-> Known(int32(rec.ID))]

recordsMatch(apiRecord, planRecord) ==
    /\ apiRecord.Type = planRecord.Type
    /\ apiRecord.Value = planRecord.Value
    /\ apiRecord.TTL = int(ValueInt32(planRecord.Ttl))
    /\ apiRecord.Priority = int(ValueInt32(planRecord.Priority))

\* a plausible slip: the loop lacks its break, so the last match is taken
FindCreatedRecord_LastMatch(records, planRecord) ==
    LET hits == {i \in 1..Len(records) : recordsMatch(records[i], planRecord)}
    IN IF hits = {} THEN 0 ELSE CHOOSE i \in hits : \A j \in hits : j <= i

\* a plausible slip: with no match, the last entry of the listing is taken
FindCreatedRecord_GuessLast(records, planRecord) ==
    LET hits == {i \in 1..Len(records) : recordsMatch(records[i], planRecord)}
    IN IF hits = {} THEN Len(records) ELSE CHOOSE i \in hits : \A j \in hits : i <= j

\* the loop of Create: index of the first matching entry, 0 when there is none
FindCreatedRecord(records, planRecord) ==
    LET hits == {i \in 1..Len(records) : recordsMatch(records[i], planRecord)}
    IN IF hits = {} THEN 0 ELSE CHOOSE i \in hits : \A j \in hits : i <= j

----------------------------------------------------------------------------
(* What a handler invocation did: the events in order *)

\* a client call with its arguments and what it returned (Absent: an error)
Call(name, args, result) == [ev |-> name, args |-> args, result |-> result]
Error(title) == [ev |-> "error", args |-> <<title>>, result |-> Absent]
StateSet(value) == [ev |-> "State.Set", args |-> <<value>>, result |-> Absent]
RemoveResource == [ev |-> "State.RemoveResource", args |-> <<>>, result |-> Absent]
Ok == Some("ok")

Events(trace, name) == {i \in 1..Len(trace) : trace[i].ev = name}
HasError(trace) == Events(trace, "error") # {}
Wrote(trace) == Events(trace, "State.Set") # {}
Removed(trace) == Events(trace, "State.RemoveResource") # {}
Diagnostics(trace) == [i \in 1..Cardinality(Events(trace, "error")) |->
    LET at == CHOOSE k \in Events(trace, "error") :
                 Cardinality({j \in Events(trace, "error") : j <= k}) = i
    IN trace[at].args[1]]
\* the value the handler left in the response state: the last write or removal
\* wins, otherwise the state the host put into the response
ResponseState(trace, initial) ==
    LET touched == Events(trace, "State.Set") \cup Events(trace, "State.RemoveResource")
    IN IF touched = {} THEN initial
       ELSE LET last == CHOOSE k \in touched : \A j \in touched : j <= k
            IN IF trace[last].ev = "State.Set" THEN Some(trace[last].args[1]) ELSE Absent

----------------------------------------------------------------------------
(* The remote service behind the client library.  w is the remote data     *)
(* [records, nextId, subdomains]; every call may fail (ok = FALSE) and      *)
(* then changes nothing.  A call returns [w, result], result Absent on     *)
(* error.                                                                   *)

InZone(w, domain, subdomain) ==
    {e \in w.records : e.Domain = domain /\ e.Subdomain = subdomain}

\* what the service stores for a submitted record: the record itself, or, when
\* it normalizes, a zero ttl replaced by the service's default
Stored(rec, normalize) ==
    IF normalize /\ rec.TTL = int(0) THEN [rec EXCEPT !.TTL = int(300)] ELSE rec

AddZoneRecord(w, domain, subdomain, rec, ok, normalize) ==
    IF ~ok THEN [w |-> w, result |-> Absent]
    ELSE [w |-> [w EXCEPT
                   !.records = @ \cup {[Domain |-> domain, Subdomain |-> subdomain,
                                        Rec |-> [Stored(rec, normalize) EXCEPT
                                                   !.ID = <<w.idHigh, w.nextId>>]]},
                   !.nextId = @ + 1],
          result |-> Ok]

\* the listing of a zone, in the order the service chooses: order is a
\* ranking of the identifiers (of their low words)
GetZoneRecords(w, domain, subdomain, ok, order) ==
    IF ~ok THEN [w |-> w, result |-> Absent]
    ELSE LET zone == InZone(w, domain, subdomain)
             pos(e) == CHOOSE k \in DOMAIN order : order[k][2] = e.Rec.ID[2]
             listing == CHOOSE f \in Perms(zone) :
                           \A i, j \in DOMAIN f : i < j => pos(f[i]) < pos(f[j])
         IN [w |-> w, result |-> Some([i \in DOMAIN listing |-> listing[i].Rec])]

GetZoneRecord(w, domain, subdomain, id, ok) ==
    LET hit == {e \in InZone(w, domain, subdomain) : e.Rec.ID = id}
    IN IF ~ok \/ hit = {} THEN [w |-> w, result |-> Absent]
       ELSE [w |-> w, result |-> Some((CHOOSE e \in hit : TRUE).Rec)]

UpdateZoneRecord(w, domain, subdomain, rec, ok, normalize) ==
    LET hit == {e \in InZone(w, domain, subdomain) : e.Rec.ID = rec.ID}
    IN IF ~ok \/ hit = {} THEN [w |-> w, result |-> Absent]
       ELSE [w |-> [w EXCEPT !.records = (@ \ hit) \cup
                       {[Domain |-> domain, Subdomain |-> subdomain,
                         Rec |-> Stored(rec, normalize)]}],
             result |-> Ok]

RemoveZoneRecord(w, domain, subdomain, id, ok) ==
    LET hit == {e \in InZone(w, domain, subdomain) : e.Rec.ID = id}
    IN IF ~ok \/ hit = {} THEN [w |-> w, result |-> Absent]
       ELSE [w |-> [w EXCEPT !.records = @ \ hit], result |-> Ok]

----------------------------------------------------------------------------
(* Zone-record resource: handlers.  A handler is computed from its inputs,  *)
(* the remote data and the outcomes o the environment chooses (whether each *)
(* decode and each call succeeds, how the service stores and lists).  It    *)
(* yields the events in order and the remote data it leaves behind.         *)

\* a plausible slip: with no match, the newest listed record is removed again
zoneRecordResource_Create_CleansUp(w, plan, o) ==
    IF ~o.planOk THEN [w |-> w, trace |-> <<Error("Plan.Get")>>]
    ELSE
    LET planRecord == toClientRecord(plan.Record)
        add == AddZoneRecord(w, plan.Domain, plan.Subdomain, planRecord,
                             o.firstOk, o.normalize)
        addEv == Call("AddZoneRecord", <<plan.Domain, plan.Subdomain, planRecord>>,
                      add.result)
    IN
    IF add.result = Absent
    THEN [w |-> add.w, trace |-> <<addEv, Error("Error Creating Zone Record")>>]
    ELSE
    LET list == GetZoneRecords(add.w, plan.Domain, plan.Subdomain, o.secondOk, o.order)
        listEv == Call("GetZoneRecords", <<plan.Domain, plan.Subdomain>>, list.result)
    IN
    IF list.result = Absent
    THEN [w |-> list.w,
          trace |-> <<addEv, listEv, Error("Error Fetching Zone Records After Creation")>>]
    ELSE
    LET records == list.result[1]
        created == FindCreatedRecord(records, plan.Record)
        newest == CHOOSE i \in DOMAIN records :
                     \A j \in DOMAIN records : records[j].ID[2] <= records[i].ID[2]
        remove == RemoveZoneRecord(list.w, plan.Domain, plan.Subdomain,
                                   records[newest].ID, TRUE)
        removeEv == Call("RemoveZoneRecord",
                         <<plan.Domain, plan.Subdomain, records[newest].ID>>,
                         remove.result)
    IN
    IF created = 0
    THEN [w |-> remove.w,
          trace |-> <<addEv, listEv, removeEv,
                      Error("Unable to Identify Created Record")>>]
    ELSE [w |-> list.w,
          trace |-> <<addEv, listEv,
                      StateSet([plan EXCEPT
                                  !.Record = recordModelFromClient(records[created])])>>]

\* a plausible slip: no return after the error of the add call
zoneRecordResource_Create_GoesOnAfterError(w, plan, o) ==
    IF ~o.planOk THEN [w |-> w, trace |-> <<Error("Plan.Get")>>]
    ELSE
    LET planRecord == toClientRecord(plan.Record)
        add == AddZoneRecord(w, plan.Domain, plan.Subdomain, planRecord,
                             o.firstOk, o.normalize)
        addEv == Call("AddZoneRecord", <<plan.Domain, plan.Subdomain, planRecord>>,
                      add.result)
        head == IF add.result = Absent
                THEN <<addEv, Error("Error Creating Zone Record")>> ELSE <<addEv>>
        list == GetZoneRecords(add.w, plan.Domain, plan.Subdomain, o.secondOk, o.order)
        listEv == Call("GetZoneRecords", <<plan.Domain, plan.Subdomain>>, list.result)
    IN
    IF list.result = Absent
    THEN [w |-> list.w,
          trace |-> head \o <<listEv, Error("Error Fetching Zone Records After Creation")>>]
    ELSE
    LET records == list.result[1]
        created == FindCreatedRecord(records, plan.Record)
    IN
    IF created = 0
    THEN [w |-> list.w,
          trace |-> head \o <<listEv, Error("Unable to Identify Created Record")>>]
    ELSE [w |-> list.w,
          trace |-> head \o <<listEv,
                      StateSet([plan EXCEPT
                                  !.Record = recordModelFromClient(records[created])])>>]

zoneRecordResource_Create(w, plan, o) ==
    IF ~o.planOk THEN [w |-> w, trace |-> <<Error("Plan.Get")>>]
    ELSE
    LET planRecord == toClientRecord(plan.Record)
        add == AddZoneRecord(w, plan.Domain, plan.Subdomain, planRecord,
                             o.firstOk, o.normalize)
        addEv == Call("AddZoneRecord", <<plan.Domain, plan.Subdomain, planRecord>>,
                      add.result)
    IN
    IF add.result = Absent
    THEN [w |-> add.w, trace |-> <<addEv, Error("Error Creating Zone Record")>>]
    ELSE
    LET list == GetZoneRecords(add.w, plan.Domain, plan.Subdomain, o.secondOk, o.order)
        listEv == Call("GetZoneRecords", <<plan.Domain, plan.Subdomain>>, list.result)
    IN
    IF list.result = Absent
    THEN [w |-> list.w,
          trace |-> <<addEv, listEv, Error("Error Fetching Zone Records After Creation")>>]
    ELSE
    LET records == list.result[1]
        created == FindCreatedRecord(records, plan.Record)
    IN
    IF created = 0
    THEN [w |-> list.w,
          trace |-> <<addEv, listEv, Error("Unable to Identify Created Record")>>]
    ELSE [w |-> list.w,
          trace |-> <<addEv, listEv,
                      StateSet([plan EXCEPT
                                  !.Record = recordModelFromClient(records[created])])>>]

\* a plausible slip: a record that cannot be fetched is dropped from state
zoneRecordResource_Read_DropsMissing(w, state, o) ==
    IF ~o.stateOk THEN [w |-> w, trace |-> <<Error("State.Get")>>]
    ELSE
    LET id == int64(ValueInt32(state.Record.RecordId))
        get == GetZoneRecord(w, state.Domain, state.Subdomain, id, o.firstOk)
        getEv == Call("GetZoneRecord", <<state.Domain, state.Subdomain, id>>, get.result)
    IN
    IF get.result = Absent
    THEN [w |-> get.w, trace |-> <<getEv, RemoveResource>>]
    ELSE [w |-> get.w,
          trace |-> <<getEv,
                      StateSet([state EXCEPT
                                  !.Record = recordModelFromClient(get.result[1])])>>]

zoneRecordResource_Read(w, state, o) ==
    IF ~o.stateOk THEN [w |-> w, trace |-> <<Error("State.Get")>>]
    ELSE
    LET id == int64(ValueInt32(state.Record.RecordId))
        get == GetZoneRecord(w, state.Domain, state.Subdomain, id, o.firstOk)
        getEv == Call("GetZoneRecord", <<state.Domain, state.Subdomain, id>>, get.result)
    IN
    IF get.result = Absent
    THEN [w |-> get.w, trace |-> <<getEv, Error("Error Reading Zone Record")>>]
    ELSE [w |-> get.w,
          trace |-> <<getEv,
                      StateSet([state EXCEPT
                                  !.Record = recordModelFromClient(get.result[1])])>>]

\* a plausible slip: the plan is saved as it is, not refreshed from the re-fetch
zoneRecordResource_Update_NoRefresh(w, plan0, state, o) ==
    IF ~o.stateOk THEN [w |-> w, trace |-> <<Error("State.Get")>>]
    ELSE IF ~o.planOk THEN [w |-> w, trace |-> <<Error("Plan.Get")>>]
    ELSE
    LET plan == [plan0 EXCEPT !.Record.RecordId = state.Record.RecordId]
        rec == toClientRecord(plan.Record)
        update == UpdateZoneRecord(w, plan.Domain, plan.Subdomain, rec,
                                   o.firstOk, o.normalize)
        updateEv == Call("UpdateZoneRecord", <<plan.Domain, plan.Subdomain, rec>>,
                         update.result)
    IN
    IF update.result = Absent
    THEN [w |-> update.w, trace |-> <<updateEv, Error("Error Updating Zone Record")>>]
    ELSE
    LET id == int64(ValueInt32(plan.Record.RecordId))
        get == GetZoneRecord(update.w, plan.Domain, plan.Subdomain, id, o.secondOk)
        getEv == Call("GetZoneRecord", <<plan.Domain, plan.Subdomain, id>>, get.result)
    IN
    IF get.result = Absent
    THEN [w |-> get.w,
          trace |-> <<updateEv, getEv, Error("Error Refreshing Zone Record After Update")>>]
    ELSE [w |-> get.w, trace |-> <<updateEv, getEv, StateSet(plan0)>>]

\* a plausible slip: the plan is saved although the re-fetch failed
zoneRecordResource_Update_SavesOnError(w, plan0, state, o) ==
    IF ~o.stateOk THEN [w |-> w, trace |-> <<Error("State.Get")>>]
    ELSE IF ~o.planOk THEN [w |-> w, trace |-> <<Error("Plan.Get")>>]
    ELSE
    LET plan == [plan0 EXCEPT !.Record.RecordId = state.Record.RecordId]
        rec == toClientRecord(plan.Record)
        update == UpdateZoneRecord(w, plan.Domain, plan.Subdomain, rec,
                                   o.firstOk, o.normalize)
        updateEv == Call("UpdateZoneRecord", <<plan.Domain, plan.Subdomain, rec>>,
                         update.result)
    IN
    IF update.result = Absent
    THEN [w |-> update.w, trace |-> <<updateEv, Error("Error Updating Zone Record")>>]
    ELSE
    LET id == int64(ValueInt32(plan.Record.RecordId))
        get == GetZoneRecord(update.w, plan.Domain, plan.Subdomain, id, o.secondOk)
        getEv == Call("GetZoneRecord", <<plan.Domain, plan.Subdomain, id>>, get.result)
    IN
    IF get.result = Absent
    THEN [w |-> get.w,
          trace |-> <<updateEv, getEv, Error("Error Refreshing Zone Record After Update"),
                      StateSet(plan)>>]
    ELSE [w |-> get.w,
          trace |-> <<updateEv, getEv,
                      StateSet([plan EXCEPT
                                  !.Record = recordModelFromClient(get.result[1])])>>]

\* a plausible slip: a failed re-fetch is answered by restoring the old values
zoneRecordResource_Update_RollsBack(w, plan0, state, o) ==
    IF ~o.stateOk THEN [w |-> w, trace |-> <<Error("State.Get")>>]
    ELSE IF ~o.planOk THEN [w |-> w, trace |-> <<Error("Plan.Get")>>]
    ELSE
    LET plan == [plan0 EXCEPT !.Record.RecordId = state.Record.RecordId]
        rec == toClientRecord(plan.Record)
        update == UpdateZoneRecord(w, plan.Domain, plan.Subdomain, rec,
                                   o.firstOk, o.normalize)
        updateEv == Call("UpdateZoneRecord", <<plan.Domain, plan.Subdomain, rec>>,
                         update.result)
    IN
    IF update.result = Absent
    THEN [w |-> update.w, trace |-> <<updateEv, Error("Error Updating Zone Record")>>]
    ELSE
    LET id == int64(ValueInt32(plan.Record.RecordId))
        get == GetZoneRecord(update.w, plan.Domain, plan.Subdomain, id, o.secondOk)
        getEv == Call("GetZoneRecord", <<plan.Domain, plan.Subdomain, id>>, get.result)
        old == toClientRecord(state.Record)
        undo == UpdateZoneRecord(get.w, plan.Domain, plan.Subdomain, old, TRUE, FALSE)
        undoEv == Call("UpdateZoneRecord", <<plan.Domain, plan.Subdomain, old>>,
                       undo.result)
    IN
    IF get.result = Absent
    THEN [w |-> undo.w,
          trace |-> <<updateEv, getEv, undoEv,
                      Error("Error Refreshing Zone Record After Update")>>]
    ELSE [w |-> get.w,
          trace |-> <<updateEv, getEv,
                      StateSet([plan EXCEPT
                                  !.Record = recordModelFromClient(get.result[1])])>>]

zoneRecordResource_Update(w, plan0, state, o) ==
    IF ~o.stateOk THEN [w |-> w, trace |-> <<Error("State.Get")>>]
    ELSE IF ~o.planOk THEN [w |-> w, trace |-> <<Error("Plan.Get")>>]
    ELSE
    LET plan == [plan0 EXCEPT !.Record.RecordId = state.Record.RecordId]
        rec == toClientRecord(plan.Record)
        update == UpdateZoneRecord(w, plan.Domain, plan.Subdomain, rec,
                                   o.firstOk, o.normalize)
        updateEv == Call("UpdateZoneRecord", <<plan.Domain, plan.Subdomain, rec>>,
                         update.result)
    IN
    IF update.result = Absent
    THEN [w |-> update.w, trace |-> <<updateEv, Error("Error Updating Zone Record")>>]
    ELSE
    LET id == int64(ValueInt32(plan.Record.RecordId))
        get == GetZoneRecord(update.w, plan.Domain, plan.Subdomain, id, o.secondOk)
        getEv == Call("GetZoneRecord", <<plan.Domain, plan.Subdomain, id>>, get.result)
    IN
    IF get.result = Absent
    THEN [w |-> get.w,
          trace |-> <<updateEv, getEv, Error("Error Refreshing Zone Record After Update")>>]
    ELSE [w |-> get.w,
          trace |-> <<updateEv, getEv,
                      StateSet([plan EXCEPT
                                  !.Record = recordModelFromClient(get.result[1])])>>]

\* a plausible slip: the error of the remove call is not reported
zoneRecordResource_Delete_IgnoresError(w, state, o) ==
    IF ~o.stateOk THEN [w |-> w, trace |-> <<Error("State.Get")>>]
    ELSE
    LET id == int64(ValueInt32(state.Record.RecordId))
        remove == RemoveZoneRecord(w, state.Domain, state.Subdomain, id, o.firstOk)
        removeEv == Call("RemoveZoneRecord", <<state.Domain, state.Subdomain, id>>,
                         remove.result)
    IN [w |-> remove.w, trace |-> <<removeEv>>]

zoneRecordResource_Delete(w, state, o) ==
    IF ~o.stateOk THEN [w |-> w, trace |-> <<Error("State.Get")>>]
    ELSE
    LET id == int64(ValueInt32(state.Record.RecordId))
        remove == RemoveZoneRecord(w, state.Domain, state.Subdomain, id, o.firstOk)
        removeEv == Call("RemoveZoneRecord", <<state.Domain, state.Subdomain, id>>,
                         remove.result)
    IN
    IF remove.result = Absent
    THEN [w |-> remove.w, trace |-> <<removeEv, Error("Error Deleting Zone Record")>>]
    ELSE [w |-> remove.w, trace |-> <<removeEv>>]

----------------------------------------------------------------------------
(* Subdomains and domains of the remote service *)

AddSubdomain(w, domain, name, ok) ==
    IF ~ok \/ <<domain, name>> \in w.subdomains THEN [w |-> w, result |-> Absent]
    ELSE [w |-> [w EXCEPT !.subdomains = @ \cup {<<domain, name>>}], result |-> Ok]

RemoveSubDomain(w, domain, name, ok) ==
    IF ~ok \/ <<domain, name>> \notin w.subdomains THEN [w |-> w, result |-> Absent]
    ELSE [w |-> [w EXCEPT !.subdomains = @ \ {<<domain, name>>}], result |-> Ok]

\* the subdomains of a domain in the order the service chooses: order is a
\* ranking of the names
GetSubdomains(w, domain, ok, order) ==
    IF ~ok THEN [w |-> w, result |-> Absent]
    ELSE LET names == {n \in SubNames : <<domain, n>> \in w.subdomains}
             pos(n) == CHOOSE k \in DOMAIN order : order[k] = n
             listing == CHOOSE f \in Perms(names) :
                           \A i, j \in DOMAIN f : i < j => pos(f[i]) < pos(f[j])
         IN [w |-> w, result |-> Some([i \in DOMAIN listing |-> [Name |-> listing[i]]])]

\* the account's domains: read-only for the provider
DomainInfo(name) ==
    [Name |-> name, Paid |-> name = "d1", Registered |-> TRUE,
     RenewalStatus |-> IF name = "d1" THEN "NORMAL" ELSE "DEACTIVATED",
     ExpirationDate |-> IF name = "d1" THEN "2030-01-01" ELSE "2031-06-30",
     ReferenceNumber |-> IF name = "d1" THEN 1001 ELSE 1002]

GetDomain(w, name, ok) ==
    IF ~ok \/ name \notin Domains THEN [w |-> w, result |-> Absent]
    ELSE [w |-> w, result |-> Some(DomainInfo(name))]

GetDomains(w, ok) ==
    IF ~ok THEN [w |-> w, result |-> Absent]
    ELSE [w |-> w, result |-> Some(<<DomainInfo("d1"), DomainInfo("d2")>>)]

----------------------------------------------------------------------------
(* Subdomain resource: handlers *)

subdomainResource_Create(w, plan, o) ==
    IF ~o.planOk THEN [w |-> w, trace |-> <<Error("Plan.Get")>>]
    ELSE
    LET add == AddSubdomain(w, plan.Domain, plan.Subdomain, o.firstOk)
        addEv == Call("AddSubdomain", <<plan.Domain, plan.Subdomain>>, add.result)
    IN
    IF add.result = Absent
    THEN [w |-> add.w, trace |-> <<addEv, Error("Error creating subdomain")>>]
    ELSE [w |-> add.w, trace |-> <<addEv, StateSet(plan)>>]

\* a plausible slip: the listing is searched for the domain, not the name
subdomainResource_Read_MatchesDomain(w, state, o) ==
    IF ~o.stateOk THEN [w |-> w, trace |-> <<Error("State.Get")>>]
    ELSE
    LET list == GetSubdomains(w, state.Domain, o.firstOk, o.subOrder)
        listEv == Call("GetSubdomains", <<state.Domain>>, list.result)
    IN
    IF list.result = Absent
    THEN [w |-> list.w, trace |-> <<listEv, Error("Unable to Read Subdomains")>>]
    ELSE
    LET subdomains == list.result[1]
        found == \E i \in DOMAIN subdomains : subdomains[i].Name = state.Domain
    IN
    IF ~found THEN [w |-> list.w, trace |-> <<listEv, RemoveResource>>]
    ELSE [w |-> list.w, trace |-> <<listEv, StateSet(state)>>]

subdomainResource_Read(w, state, o) ==
    IF ~o.stateOk THEN [w |-> w, trace |-> <<Error("State.Get")>>]
    ELSE
    LET list == GetSubdomains(w, state.Domain, o.firstOk, o.subOrder)
        listEv == Call("GetSubdomains", <<state.Domain>>, list.result)
    IN
    IF list.result = Absent
    THEN [w |-> list.w, trace |-> <<listEv, Error("Unable to Read Subdomains")>>]
    ELSE
    LET subdomains == list.result[1]
        found == \E i \in DOMAIN subdomains : subdomains[i].Name = state.Subdomain
    IN
    IF ~found THEN [w |-> list.w, trace |-> <<listEv, RemoveResource>>]
    ELSE [w |-> list.w, trace |-> <<listEv, StateSet(state)>>]

\* a plausible slip: Update saves the plan as the new state
subdomainResource_Update_SavesPlan(w, plan, state, o) ==
    [w |-> w, trace |-> <<StateSet(plan)>>]

subdomainResource_Update(w, plan, state, o) ==
    [w |-> w, trace |-> <<>>]

subdomainResource_Delete(w, state, o) ==
    IF ~o.stateOk THEN [w |-> w, trace |-> <<Error("State.Get")>>]
    ELSE
    LET remove == RemoveSubDomain(w, state.Domain, state.Subdomain, o.firstOk)
        removeEv == Call("RemoveSubDomain", <<state.Domain, state.Subdomain>>,
                         remove.result)
    IN
    IF remove.result = Absent
    THEN [w |-> remove.w, trace |-> <<removeEv, Error("Error Deleting Loopia Subdomain")>>]
    ELSE [w |-> remove.w, trace |-> <<removeEv>>]

----------------------------------------------------------------------------
(* Data sources: Read handlers *)

DomainDataSource_Read(w, cfg, o) ==
    IF ~o.planOk THEN [w |-> w, trace |-> <<Error("Config.Get")>>]
    ELSE
    LET get == GetDomain(w, cfg.Name, o.firstOk)
        getEv == Call("GetDomain", <<cfg.Name>>, get.result)
    IN
    IF get.result = Absent
    THEN [w |-> get.w, trace |-> <<getEv, Error("Unable to Read Loopia Domain")>>]
    ELSE LET domain == get.result[1]
         IN [w |-> get.w,
             trace |-> <<getEv,
                         StateSet([Name |-> domain.Name, Paid |-> domain.Paid,
                                   Registered |-> domain.Registered,
                                   RenewalStatus |-> domain.RenewalStatus,
                                   ExpirationDate |-> domain.ExpirationDate,
                                   ReferenceNumber |-> domain.ReferenceNumber])>>]

DomainsDataSource_Read(w, o) ==
    LET list == GetDomains(w, o.firstOk)
        listEv == Call("GetDomains", <<>>, list.result)
    IN
    IF list.result = Absent
    THEN [w |-> list.w, trace |-> <<listEv, Error("Unable to Read Loopia Domains")>>]
    ELSE LET domains == list.result[1]
         IN [w |-> list.w,
             trace |-> <<listEv,
                 StateSet([Domains |-> [i \in DOMAIN domains |->
                     [Name |-> domains[i].Name, Paid |-> domains[i].Paid,
                      Registered |-> domains[i].Registered,
                      RenewalStatus |-> domains[i].RenewalStatus,
                      ExpirationDate |-> domains[i].ExpirationDate,
                      ReferenceNumber |-> domains[i].ReferenceNumber]]])>>]

SubdomainsDataSource_Read(w, cfg, o) ==
    IF ~o.planOk THEN [w |-> w, trace |-> <<Error("Config.Get")>>]
    ELSE
    LET list == GetSubdomains(w, cfg.Domain, o.firstOk, o.subOrder)
        listEv == Call("GetSubdomains", <<cfg.Domain>>, list.result)
    IN
    IF list.result = Absent
    THEN [w |-> list.w, trace |-> <<listEv, Error("Unable to Read Loopia Subdomains")>>]
    ELSE LET subdomains == list.result[1]
             subdomainNames == [i \in DOMAIN subdomains |-> subdomains[i].Name]
         IN [w |-> list.w,
             trace |-> <<listEv,
                         StateSet([Domain |-> cfg.Domain, Subdomains |-> subdomainNames])>>]

\* a plausible slip: the output is built back to front
zoneRecordsDataSource_Read_Reversed(w, cfg, o) ==
    IF ~o.planOk THEN [w |-> w, trace |-> <<Error("Config.Get")>>]
    ELSE
    LET list == GetZoneRecords(w, cfg.Domain, cfg.Subdomain, o.firstOk, o.order)
        listEv == Call("GetZoneRecords", <<cfg.Domain, cfg.Subdomain>>, list.result)
    IN
    IF list.result = Absent
    THEN [w |-> list.w, trace |-> <<listEv, Error("Unable to Read Loopia Zone Records")>>]
    ELSE LET zoneRecords == list.result[1]
             at(i) == zoneRecords[Len(zoneRecords) + 1 - i]
         IN [w |-> list.w,
             trace |-> <<listEv,
                 StateSet([Domain |-> cfg.Domain, Subdomain |-> cfg.Subdomain,
                           ZoneRecords |-> [i \in DOMAIN zoneRecords |->
                               [Type |-> at(i).Type,
                                Ttl |-> Known(int32(at(i).TTL)),
                                Priority |-> Known(int32(at(i).Priority)),
                                Value |-> at(i).Value,
                                RecordId |-> Known(int32(at(i).ID))]]])>>]

zoneRecordsDataSource_Read(w, cfg, o) ==
    IF ~o.planOk THEN [w |-> w, trace |-> <<Error("Config.Get")>>]
    ELSE
    LET list == GetZoneRecords(w, cfg.Domain, cfg.Subdomain, o.firstOk, o.order)
        listEv == Call("GetZoneRecords", <<cfg.Domain, cfg.Subdomain>>, list.result)
    IN
    IF list.result = Absent
    THEN [w |-> list.w, trace |-> <<listEv, Error("Unable to Read Loopia Zone Records")>>]
    ELSE LET zoneRecords == list.result[1]
         IN [w |-> list.w,
             trace |-> <<listEv,
                 StateSet([Domain |-> cfg.Domain, Subdomain |-> cfg.Subdomain,
                           ZoneRecords |-> [i \in DOMAIN zoneRecords |->
                               [Type |-> zoneRecords[i].Type,
                                Ttl |-> Known(int32(zoneRecords[i].TTL)),
                                Priority |-> Known(int32(zoneRecords[i].Priority)),
                                Value |-> zoneRecords[i].Value,
                                RecordId |-> Known(int32(zoneRecords[i].ID))]]])>>]

----------------------------------------------------------------------------
(* Provider root *)

AttributeError(path, title) == [ev |-> "error", args |-> <<title, path>>, result |-> Absent]

\* loopia.New: the client built from the credentials, or an error
New(username, password, ok) ==
    IF ~ok THEN Absent ELSE Some([username |-> username, password |-> password])

\* a plausible slip: the environment variable wins over the configuration
Resolve_EnvironmentFirst(attr, fromEnv) ==
    IF fromEnv # "" THEN fromEnv ELSE ValueString(attr)

\* a plausible slip: an explicit empty string falls back to the environment
Resolve_EmptyFallsBack(attr, fromEnv) ==
    IF ~IsNull(attr) /\ ValueString(attr) # "" THEN ValueString(attr) ELSE fromEnv

\* the environment variable, overridden by the configuration value if set
Resolve(attr, fromEnv) ==
    IF ~IsNull(attr) THEN ValueString(attr) ELSE fromEnv

LoopiaProvider_Configure(cfg, environ, o) ==
    IF ~o.planOk THEN <<Error("Config.Get")>>
    ELSE
    LET unknown ==
            (IF IsUnknown(cfg.Username)
             THEN <<AttributeError("username", "Unknown Loopia API Username")>> ELSE <<>>)
            \o
            (IF IsUnknown(cfg.Password)
             THEN <<AttributeError("password", "Unknown Loopia API Password")>> ELSE <<>>)
    IN
    IF HasError(unknown) THEN unknown
    ELSE
    LET username == Resolve(cfg.Username, environ.LOOPIA_USERNAME)
        password == Resolve(cfg.Password, environ.LOOPIA_PASSWORD)
        missing ==
            (IF username = ""
             THEN <<AttributeError("username", "Missing Loopia API Username")>> ELSE <<>>)
            \o
            (IF password = ""
             THEN <<AttributeError("password", "Missing Loopia API Password")>> ELSE <<>>)
    IN
    IF HasError(missing) THEN missing
    ELSE
    LET client == New(username, password, o.firstOk)
        newEv == Call("loopia.New", <<username, password>>, client)
    IN
    IF client = Absent THEN <<newEv, Error("Unable to Create Loopia API Client")>>
    ELSE <<newEv,
           [ev |-> "DataSourceData", args |-> client, result |-> Absent],
           [ev |-> "ResourceData", args |-> client, result |-> Absent]>>

----------------------------------------------------------------------------
(* Inputs and outcomes the environment chooses *)

\* rankings by which the service orders a listing
Orders == Perms({int64(n) : n \in 1..MaxId})
SubOrders == Perms(SubNames)

Outcome(planOk, stateOk, firstOk, secondOk, normalize, order, subOrder) ==
    [planOk |-> planOk, stateOk |-> stateOk, firstOk |-> firstOk, secondOk |-> secondOk,
     normalize |-> normalize, order |-> order, subOrder |-> subOrder]

AnyOrder == CHOOSE f \in Orders : TRUE
AnySubOrder == CHOOSE f \in SubOrders : TRUE

\* The outcomes of a handler that makes up to `calls` client calls (0, 1 or 2) after
\* decoding its inputs: a decode fails, or a call fails and ends the handler,
\* or all succeed.  What the service does (normalize, order, subOrder) is
\* chosen only where a call that reads it is reached.
DecodeFailures == {Outcome(FALSE, TRUE, TRUE, TRUE, FALSE, AnyOrder, AnySubOrder),
                   Outcome(TRUE, FALSE, TRUE, TRUE, FALSE, AnyOrder, AnySubOrder)}
Outcomes(calls, normalizes, orders, subOrders) ==
    DecodeFailures
    \cup (IF calls >= 1
          THEN {Outcome(TRUE, TRUE, FALSE, TRUE, FALSE, AnyOrder, AnySubOrder)} ELSE {})
    \cup (IF calls >= 2
          THEN {Outcome(TRUE, TRUE, TRUE, FALSE, n, AnyOrder, AnySubOrder) : n \in normalizes}
          ELSE {})
    \cup {Outcome(TRUE, TRUE, TRUE, TRUE, n, order, subOrder) :
             n \in normalizes, order \in orders, subOrder \in subOrders}

\* the record blocks a configuration can plan: ttl and priority are optional
\* and unknown in the plan when omitted, record_id is always computed
PlanRecords ==
    {[Type |-> "A", Value |-> "192.0.2.1", Ttl |-> UnknownInt32,
      Priority |-> UnknownInt32, RecordId |-> UnknownInt32],
     [Type |-> "A", Value |-> "192.0.2.1", Ttl |-> Known(300),
      Priority |-> UnknownInt32, RecordId |-> UnknownInt32],
     [Type |-> "MX", Value |-> "192.0.2.1", Ttl |-> Known(300),
      Priority |-> Known(10), RecordId |-> UnknownInt32]}

\* a record is first declared in one zone; a later edit of the configuration
\* may change any attribute, the domain included
CreatePlans == [Domain : {"d1"}, Subdomain : {"s1"}, Record : PlanRecords]
UpdatePlans == [Domain : Domains, Subdomain : {"s1"}, Record : PlanRecords]
SubdomainPlans == [Domain : Domains, Subdomain : SubNames]

World ==
    [records |-> remoteRecords, nextId |-> nextId, idHigh |-> idHigh,
     subdomains |-> remoteSubdomains]

Response(op, res, trace, plan, prior) ==
    [op |-> op, res |-> res, trace |-> trace, plan |-> plan, prior |-> prior]

\* no response pending: the host is free to make its next request
Idle == Response("idle", "-", <<>>, Absent, Absent)

\* the handler runs on the host's request: the remote data it leaves behind
\* and its response
Apply(out, op, res, plan, prior) ==
    /\ resp = Idle
    /\ remoteRecords' = out.w.records
    /\ nextId' = out.w.nextId
    /\ remoteSubdomains' = out.w.subdomains
    /\ resp' = Response(op, res, out.trace, plan, prior)

----------------------------------------------------------------------------
(* Actions: one per handler invocation by the host *)

ZoneRecordCreate(r) ==
    /\ r \in declared
    /\ zoneState[r] = Absent
    /\ nextId <= MaxId
    /\ \E plan \in CreatePlans, o \in Outcomes(2, BOOLEAN, Orders, {AnySubOrder}) :
        LET out == zoneRecordResource_Create(World, plan, o)
        IN /\ Apply(out, "zone.Create", r, Some(plan), Absent)
           /\ zoneState' = [zoneState EXCEPT ![r] = ResponseState(out.trace, Absent)]
    /\ UNCHANGED <<subState, idHigh, providerVars>>

ZoneRecordRead(r) ==
    /\ r \in declared
    /\ zoneState[r] # Absent
    /\ \E o \in Outcomes(1, {FALSE}, {AnyOrder}, {AnySubOrder}) :
        LET out == zoneRecordResource_Read(World, zoneState[r][1], o)
        IN /\ Apply(out, "zone.Read", r, Absent, zoneState[r])
           /\ zoneState' = [zoneState EXCEPT ![r] = ResponseState(out.trace, zoneState[r])]
    /\ UNCHANGED <<subState, idHigh, providerVars>>

ZoneRecordUpdate(r) ==
    /\ r \in declared
    /\ zoneState[r] # Absent
    /\ \E plan \in UpdatePlans, o \in Outcomes(2, BOOLEAN, {AnyOrder}, {AnySubOrder}) :
        LET out == zoneRecordResource_Update(World, plan, zoneState[r][1], o)
        IN /\ Apply(out, "zone.Update", r, Some(plan), zoneState[r])
           /\ zoneState' = [zoneState EXCEPT ![r] = ResponseState(out.trace, zoneState[r])]
    /\ UNCHANGED <<subState, idHigh, providerVars>>

\* the host drops the resource from state when Delete reports no error
ZoneRecordDelete(r) ==
    /\ r \in declared
    /\ zoneState[r] # Absent
    /\ \E o \in Outcomes(1, {FALSE}, {AnyOrder}, {AnySubOrder}) :
        LET out == zoneRecordResource_Delete(World, zoneState[r][1], o)
        IN /\ Apply(out, "zone.Delete", r, Absent, zoneState[r])
           /\ zoneState' = [zoneState EXCEPT ![r] =
                  IF HasError(out.trace) THEN ResponseState(out.trace, zoneState[r])
                  ELSE Absent]
    /\ UNCHANGED <<subState, idHigh, providerVars>>

SubdomainCreate ==
    /\ "subdomain" \in declared
    /\ subState = Absent
    /\ \E plan \in SubdomainPlans, o \in Outcomes(1, {FALSE}, {AnyOrder}, {AnySubOrder}) :
        LET out == subdomainResource_Create(World, plan, o)
        IN /\ Apply(out, "subdomain.Create", "sub", Some(plan), Absent)
           /\ subState' = ResponseState(out.trace, Absent)
    /\ UNCHANGED <<zoneState, idHigh, providerVars>>

SubdomainRead ==
    /\ "subdomain" \in declared
    /\ subState # Absent
    /\ \E o \in Outcomes(1, {FALSE}, {AnyOrder}, SubOrders) :
        LET out == subdomainResource_Read(World, subState[1], o)
        IN /\ Apply(out, "subdomain.Read", "sub", Absent, subState)
           /\ subState' = ResponseState(out.trace, subState)
    /\ UNCHANGED <<zoneState, idHigh, providerVars>>

SubdomainUpdate ==
    /\ "subdomain" \in declared
    /\ subState # Absent
    /\ \E plan \in SubdomainPlans, o \in Outcomes(0, {FALSE}, {AnyOrder}, {AnySubOrder}) :
        LET out == subdomainResource_Update(World, plan, subState[1], o)
        IN /\ Apply(out, "subdomain.Update", "sub", Some(plan), subState)
           /\ subState' = ResponseState(out.trace, subState)
    /\ UNCHANGED <<zoneState, idHigh, providerVars>>

SubdomainDelete ==
    /\ "subdomain" \in declared
    /\ subState # Absent
    /\ \E o \in Outcomes(1, {FALSE}, {AnyOrder}, {AnySubOrder}) :
        LET out == subdomainResource_Delete(World, subState[1], o)
        IN /\ Apply(out, "subdomain.Delete", "sub", Absent, subState)
           /\ subState' = IF HasError(out.trace) THEN ResponseState(out.trace, subState)
                          ELSE Absent
    /\ UNCHANGED <<zoneState, idHigh, providerVars>>

DomainRead ==
    /\ "domain" \in declared
    /\ \E name \in Domains \cup {"dx"}, o \in Outcomes(1, {FALSE}, {AnyOrder}, {AnySubOrder}) :
        LET out == DomainDataSource_Read(World, [Name |-> name], o)
        IN Apply(out, "domain.Read", "data", Some([Name |-> name]), Absent)
    /\ UNCHANGED <<zoneState, subState, idHigh, providerVars>>

DomainsRead ==
    /\ "domains" \in declared
    /\ \E o \in Outcomes(1, {FALSE}, {AnyOrder}, {AnySubOrder}) :
        LET out == DomainsDataSource_Read(World, o)
        IN Apply(out, "domains.Read", "data", Absent, Absent)
    /\ UNCHANGED <<zoneState, subState, idHigh, providerVars>>

SubdomainsRead ==
    /\ "subdomains" \in declared
    /\ \E domain \in Domains, o \in Outcomes(1, {FALSE}, {AnyOrder}, SubOrders) :
        LET out == SubdomainsDataSource_Read(World, [Domain |-> domain], o)
        IN Apply(out, "subdomains.Read", "data", Some([Domain |-> domain]), Absent)
    /\ UNCHANGED <<zoneState, subState, idHigh, providerVars>>

ZoneRecordsRead ==
    /\ "zone_records" \in declared
    /\ \E domain \in Domains, o \in Outcomes(1, {FALSE}, Orders, {AnySubOrder}) :
        LET cfg == [Domain |-> domain, Subdomain |-> "s1"]
            out == zoneRecordsDataSource_Read(World, cfg, o)
        IN Apply(out, "zone_records.Read", "data", Some(cfg), Absent)
    /\ UNCHANGED <<zoneState, subState, idHigh, providerVars>>

\* somebody else adds a subdomain at the service, or removes a record or a
\* subdomain
OutOfBandAddSubdomain ==
    /\ resp = Idle
    /\ "subdomain" \in declared
    /\ \E domain \in Domains, name \in SubNames :
          /\ <<domain, name>> \notin remoteSubdomains
          /\ remoteSubdomains' = remoteSubdomains \cup {<<domain, name>>}
    /\ UNCHANGED <<resp, remoteRecords, nextId, zoneState, subState, idHigh, providerVars>>

OutOfBandRemoveRecord ==
    /\ resp = Idle
    /\ \E e \in remoteRecords : remoteRecords' = remoteRecords \ {e}
    /\ UNCHANGED <<resp, nextId, remoteSubdomains, zoneState, subState, idHigh, providerVars>>

OutOfBandRemoveSubdomain ==
    /\ resp = Idle
    /\ \E s \in remoteSubdomains : remoteSubdomains' = remoteSubdomains \ {s}
    /\ UNCHANGED <<resp, remoteRecords, nextId, zoneState, subState, idHigh, providerVars>>

\* the host has taken the response; it makes its requests one at a time
HostReturn ==
    /\ resp # Idle
    /\ resp' = Idle
    /\ UNCHANGED <<remoteRecords, nextId, idHigh, remoteSubdomains, zoneState, subState,
                   providerVars>>

Configure ==
    /\ presp = Absent
    /\ \E o \in Outcomes(1, {FALSE}, {AnyOrder}, {AnySubOrder}) :
        presp' = Some(LoopiaProvider_Configure(config, env, o))
    /\ UNCHANGED <<declared, config, env, crudVars>>

----------------------------------------------------------------------------
(* Specifications *)

ConfigValues == {NullString, UnknownString, Known(""), Known("configured")}
EnvValues == {"", "environment"}

\* the configurations under check: what each declares
Configurations ==
    {ZoneResources \cup {"zone_records"},
     {"subdomain", "subdomains", "domain", "domains"}}

InitCrud ==
    /\ remoteRecords = {}
    /\ nextId = 1
    /\ idHigh = 0
    /\ remoteSubdomains = {}
    /\ zoneState = [r \in ZoneResources |-> Absent]
    /\ subState = Absent
    /\ resp = Idle

\* the provider before Configure, for every configuration and environment
InitProvider ==
    /\ config \in [Username : ConfigValues, Password : ConfigValues]
    /\ env \in [LOOPIA_USERNAME : EnvValues, LOOPIA_PASSWORD : EnvValues]
    /\ presp = Absent
    /\ declared = {}
    /\ InitCrud

NextProvider == Configure

SpecProvider == InitProvider /\ [][NextProvider]_vars

\* the adapters once the provider is configured from the environment
Init ==
    /\ config = [Username |-> NullString, Password |-> NullString]
    /\ env = [LOOPIA_USERNAME |-> "environment", LOOPIA_PASSWORD |-> "environment"]
    /\ presp = Some(LoopiaProvider_Configure(config, env,
                   Outcome(TRUE, TRUE, TRUE, TRUE, FALSE, AnyOrder, AnySubOrder)))
    /\ declared \in Configurations
    /\ InitCrud

Next ==
    \/ \E r \in ZoneResources : ZoneRecordCreate(r)
    \/ \E r \in ZoneResources : ZoneRecordRead(r)
    \/ \E r \in ZoneResources : ZoneRecordUpdate(r)
    \/ \E r \in ZoneResources : ZoneRecordDelete(r)
    \/ SubdomainCreate
    \/ SubdomainRead
    \/ SubdomainUpdate
    \/ SubdomainDelete
    \/ DomainRead
    \/ DomainsRead
    \/ SubdomainsRead
    \/ ZoneRecordsRead
    \/ OutOfBandAddSubdomain
    \/ OutOfBandRemoveRecord
    \/ OutOfBandRemoveSubdomain
    \/ HostReturn

Spec == Init /\ [][Next]_vars

----------------------------------------------------------------------------
(* Properties.  They read the response of the last handler invocation and  *)
(* the state it left behind.                                                *)

Made(name) == Events(resp.trace, name) # {}
Args(name) == resp.trace[CHOOSE i \in Events(resp.trace, name) : TRUE].args
\* what the call returned: Absent when it failed or was not made
Result(name) ==
    IF Made(name) THEN resp.trace[CHOOSE i \in Events(resp.trace, name) : TRUE].result
    ELSE Absent

SameTuple(a, b) ==
    a.Type = b.Type /\ a.Value = b.Value /\ a.TTL = b.TTL /\ a.Priority = b.Priority

\* zone-record Create got as far as a fetched listing
CreateListed ==
    /\ resp.op = "zone.Create"
    /\ Result("AddZoneRecord") # Absent
    /\ Result("GetZoneRecords") # Absent
Submitted == Args("AddZoneRecord")[3]
Listing == Result("GetZoneRecords")[1]
MatchingEntries == {i \in 1..Len(Listing) : SameTuple(Listing[i], Submitted)}
\* the record the service stored for the add call of this Create
AddedRecords == {e \in remoteRecords : e.Rec.ID = <<idHigh, nextId - 1>>}
\* the records of the created resource's zone that carry the submitted tuple
ZoneMatches ==
    {e \in InZone(World, resp.plan[1].Domain, resp.plan[1].Subdomain) :
        SameTuple(e.Rec, Submitted)}

\* C1: when the listing fetched by zone-record Create holds two or more
\* entries equal to the submitted (type, value, ttl, priority), Create
\* reports an error and records no identifier.
C1_AmbiguousCreateFails ==
    (CreateListed /\ Cardinality(MatchingEntries) >= 2)
        => (HasError(resp.trace) /\ zoneState[resp.res] = Absent)

\* C2: when the record the service stored for a zone-record Create carries
\* the submitted tuple and no other record of the zone does, Create succeeds
\* and the identifier in state is that of exactly one record of the zone, the
\* stored one, whose fields are the submitted ones and the ones in state.
C2_UniqueCreateAdoptsItsRecord ==
    (CreateListed /\ Cardinality(ZoneMatches) = 1 /\ ZoneMatches \subseteq AddedRecords)
        => /\ ~HasError(resp.trace)
           /\ zoneState[resp.res] # Absent
           /\ LET st == zoneState[resp.res][1]
                  held == {e \in InZone(World, st.Domain, st.Subdomain) :
                             e.Rec.ID = int64(ValueInt32(st.Record.RecordId))}
              IN /\ st.Domain = resp.plan[1].Domain
                 /\ st.Subdomain = resp.plan[1].Subdomain
                 /\ held = ZoneMatches
                 /\ \A e \in held : toClientRecord(st.Record) = e.Rec

C2_Witness ==
    /\ CreateListed
    /\ Cardinality(ZoneMatches) = 1
    /\ ZoneMatches \subseteq AddedRecords
    /\ Len(Listing) >= 2
    /\ zoneState[resp.res] # Absent

\* C3: a successful zone-record Update keeps the identifier of the prior
\* state, issues the update call and the re-fetch with that identifier, and
\* leaves in state the planned type and value and the record as re-fetched.
C3_UpdatePreservesIdentifier ==
    (resp.op = "zone.Update" /\ ~HasError(resp.trace))
        => /\ zoneState[resp.res] # Absent
           /\ LET st == zoneState[resp.res][1]
                  prior == resp.prior[1]
                  plan == resp.plan[1]
                  id == int64(ValueInt32(prior.Record.RecordId))
              IN /\ st.Record.RecordId = prior.Record.RecordId
                 /\ Made("UpdateZoneRecord")
                 /\ Args("UpdateZoneRecord")[3].ID = id
                 /\ SameTuple(Args("UpdateZoneRecord")[3], toClientRecord(plan.Record))
                 /\ Made("GetZoneRecord")
                 /\ Args("GetZoneRecord")[3] = id
                 /\ Result("GetZoneRecord") = Some(toClientRecord(st.Record))
                 /\ st.Record.Type = plan.Record.Type
                 /\ st.Record.Value = plan.Record.Value
                 /\ IsUnknown(plan.Record.Ttl) \/ st.Record.Ttl = plan.Record.Ttl
                 /\ IsUnknown(plan.Record.Priority) \/ st.Record.Priority = plan.Record.Priority

C3_Witness ==
    /\ resp.op = "zone.Update"
    /\ ~HasError(resp.trace)
    /\ zoneState[resp.res] # resp.prior
    /\ zoneState[resp.res][1].Record.RecordId = resp.prior[1].Record.RecordId
    /\ IsUnknown(resp.plan[1].Record.RecordId)

SubdomainListed ==
    /\ resp.op = "subdomain.Read"
    /\ Result("GetSubdomains") # Absent
NameListed ==
    \E i \in DOMAIN Result("GetSubdomains")[1] :
        Result("GetSubdomains")[1][i].Name = resp.prior[1].Subdomain

\* C4: a successful subdomain Create stores exactly the planned domain and
\* subdomain, and a subdomain Read that finds the name in the listing leaves
\* the state as it was, so Create then Read yields the created input.
C4_SubdomainCreateThenRead ==
    /\ (resp.op = "subdomain.Create" /\ ~HasError(resp.trace))
          => /\ subState = resp.plan
             /\ DOMAIN subState[1] = {"Domain", "Subdomain"}
    /\ (SubdomainListed /\ NameListed)
          => (~HasError(resp.trace) /\ subState = resp.prior)

C4_Witness ==
    /\ SubdomainListed
    /\ NameListed
    /\ Len(Result("GetSubdomains")[1]) >= 2
    /\ subState = resp.prior
    /\ subState[1] \in SubdomainPlans

IsRead ==
    resp.op \in {"zone.Read", "subdomain.Read", "domain.Read", "domains.Read",
                 "subdomains.Read", "zone_records.Read"}

\* C5: a subdomain Read whose fetched listing lacks the name drops the
\* resource from state without an error, and no Read of any adapter removes
\* a resource from state in any other case.
C5_OnlyMissingSubdomainIsDropped ==
    /\ (SubdomainListed /\ ~NameListed)
          => (subState = Absent /\ ~HasError(resp.trace))
    /\ (IsRead /\ Removed(resp.trace)) => (SubdomainListed /\ ~NameListed)
    /\ (resp.op = "subdomain.Read" /\ subState = Absent)
          => (SubdomainListed /\ ~NameListed)
    /\ resp.op = "zone.Read" => zoneState[resp.res] # Absent

C5_Witness ==
    /\ SubdomainListed
    /\ ~NameListed
    /\ resp.prior # Absent
    /\ subState = Absent
    /\ Len(Result("GetSubdomains")[1]) >= 1

\* C6: zone-record Read never drops the resource; when the fetch fails, also
\* because the record is gone from the service, it reports an error and the
\* prior state stays; when the fetch succeeds the record in state is the
\* fetched one, field by field.
C6_ZoneReadKeepsOrRefreshes ==
    (resp.op = "zone.Read" /\ Made("GetZoneRecord"))
        => /\ zoneState[resp.res] # Absent
           /\ IF Result("GetZoneRecord") = Absent
              THEN HasError(resp.trace) /\ zoneState[resp.res] = resp.prior
              ELSE /\ ~HasError(resp.trace)
                   /\ toClientRecord(zoneState[resp.res][1].Record)
                         = Result("GetZoneRecord")[1]
                   /\ zoneState[resp.res][1].Domain = resp.prior[1].Domain
                   /\ zoneState[resp.res][1].Subdomain = resp.prior[1].Subdomain

\* the record is gone from the service and Read is asked for it
C6_Witness ==
    /\ resp.op = "zone.Read"
    /\ Made("GetZoneRecord")
    /\ Result("GetZoneRecord") = Absent
    /\ \A e \in remoteRecords : e.Rec.ID # Args("GetZoneRecord")[3]
    /\ zoneState[resp.res] = resp.prior
    /\ HasError(resp.trace)

\* C9: in every handler, once an error diagnostic is raised no state is
\* written or removed in that invocation, and the state stays the prior one.
C9_NoStateWriteOnError ==
    (resp # Idle /\ HasError(resp.trace))
        => /\ ~Wrote(resp.trace)
           /\ ~Removed(resp.trace)
           /\ resp.res \in ZoneResources => zoneState[resp.res] = resp.prior
           /\ resp.res = "sub" => subState = resp.prior

\* an error after a call that succeeded and changed the service
C9_Witness ==
    /\ resp.op = "zone.Update"
    /\ Result("UpdateZoneRecord") # Absent
    /\ Made("GetZoneRecord")
    /\ HasError(resp.trace)
    /\ zoneState[resp.res] = resp.prior

\* C10: when the add call of zone-record Create succeeds and the fetched
\* listing holds no entry equal to the submitted tuple, Create fails with
\* the one error "Unable to Identify Created Record", which it raises in no
\* other case, and records no identifier.
C10_NoMatchIsDedicatedError ==
    /\ (CreateListed /\ MatchingEntries = {})
          => /\ Diagnostics(resp.trace) = <<"Unable to Identify Created Record">>
             /\ ~Wrote(resp.trace)
             /\ zoneState[resp.res] = Absent
    /\ (resp.op = "zone.Create" /\
        \E i \in DOMAIN Diagnostics(resp.trace) :
            Diagnostics(resp.trace)[i] = "Unable to Identify Created Record")
          => (CreateListed /\ MatchingEntries = {})

C10_Witness ==
    /\ CreateListed
    /\ MatchingEntries = {}
    /\ Len(Listing) >= 2
    /\ zoneState[resp.res] = Absent
    /\ AddedRecords # {}

----------------------------------------------------------------------------
(* Properties of the provider root, read from the response of Configure *)

Configured == presp # Absent
ProviderTrace == presp[1]
Decoded == \A i \in Events(ProviderTrace, "error") : ProviderTrace[i].args # <<"Config.Get">>
NewCalls == Events(ProviderTrace, "loopia.New")
NewArgs == ProviderTrace[CHOOSE i \in NewCalls : TRUE].args
NewResult == ProviderTrace[CHOOSE i \in NewCalls : TRUE].result
HandlesSet ==
    {ProviderTrace[i].ev : i \in DOMAIN ProviderTrace} \cap {"DataSourceData", "ResourceData"}
\* the client handed to the data sources and resources
Handle(name) == ProviderTrace[CHOOSE i \in Events(ProviderTrace, name) : TRUE].args[1]
AttributeErrors ==
    {ProviderTrace[i].args : i \in Events(ProviderTrace, "error")}

\* C7: with only the environment variables set Configure builds the client
\* from them and succeeds (unless the client constructor itself fails); an
\* explicit configuration value is the one the client is built with, whatever
\* the environment holds; with neither set Configure fails with exactly two
\* errors, one for the username and one for the password.
C7_CredentialResolution ==
    (Configured /\ Decoded)
        => /\ (/\ IsNull(config.Username) /\ IsNull(config.Password)
               /\ env.LOOPIA_USERNAME # "" /\ env.LOOPIA_PASSWORD # "")
                 => /\ NewCalls # {}
                    /\ NewArgs = <<env.LOOPIA_USERNAME, env.LOOPIA_PASSWORD>>
                    /\ NewResult # Absent
                         => /\ ~HasError(ProviderTrace)
                            /\ HandlesSet = {"DataSourceData", "ResourceData"}
                            /\ Handle("ResourceData").username = env.LOOPIA_USERNAME
                            /\ Handle("ResourceData").password = env.LOOPIA_PASSWORD
                            /\ Handle("DataSourceData") = Handle("ResourceData")
           /\ (NewCalls # {} /\ config.Username.kind = "known")
                 => NewArgs[1] = config.Username.v
           /\ (NewCalls # {} /\ config.Password.kind = "known")
                 => NewArgs[2] = config.Password.v
           /\ (/\ IsNull(config.Username) /\ IsNull(config.Password)
               /\ env.LOOPIA_USERNAME = "" /\ env.LOOPIA_PASSWORD = "")
                 => /\ Len(Diagnostics(ProviderTrace)) = 2
                    /\ AttributeErrors = {<<"Missing Loopia API Username", "username">>,
                                          <<"Missing Loopia API Password", "password">>}
                    /\ NewCalls = {}

\* configuration and environment disagree and the configuration is used
C7_Witness ==
    /\ Configured
    /\ config.Username.kind = "known"
    /\ env.LOOPIA_USERNAME # ""
    /\ env.LOOPIA_USERNAME # config.Username.v
    /\ IsNull(config.Password)
    /\ HandlesSet = {"DataSourceData", "ResourceData"}
    /\ Handle("ResourceData").username = config.Username.v
    /\ Handle("ResourceData").password = env.LOOPIA_PASSWORD

\* the credential Configure is to use: the configuration value unless null
Resolved(attr, fromEnv) == IF attr.kind = "null" THEN fromEnv ELSE attr.v
ShouldConstruct ==
    /\ ~IsUnknown(config.Username)
    /\ ~IsUnknown(config.Password)
    /\ Resolved(config.Username, env.LOOPIA_USERNAME) # ""
    /\ Resolved(config.Password, env.LOOPIA_PASSWORD) # ""
ExpectedAttributeErrors ==
    IF IsUnknown(config.Username) \/ IsUnknown(config.Password)
    THEN (IF IsUnknown(config.Username)
          THEN {<<"Unknown Loopia API Username", "username">>} ELSE {})
         \cup (IF IsUnknown(config.Password)
               THEN {<<"Unknown Loopia API Password", "password">>} ELSE {})
    ELSE (IF Resolved(config.Username, env.LOOPIA_USERNAME) = ""
          THEN {<<"Missing Loopia API Username", "username">>} ELSE {})
         \cup (IF Resolved(config.Password, env.LOOPIA_PASSWORD) = ""
               THEN {<<"Missing Loopia API Password", "password">>} ELSE {})

\* C8: Configure calls the client constructor exactly when neither
\* credential is unknown and both resolve to a non-empty string (an explicit
\* value, the empty string included, overrides the environment); otherwise
\* it raises one error per offending attribute, attached to that attribute;
\* whenever it raises an error neither client handle is set.
C8_ConstructIffResolved ==
    Configured
        => /\ Decoded => (NewCalls # {} <=> ShouldConstruct)
           /\ (Decoded /\ ~ShouldConstruct)
                 => /\ AttributeErrors = ExpectedAttributeErrors
                    /\ Len(Diagnostics(ProviderTrace))
                          = Cardinality(ExpectedAttributeErrors)
           /\ HasError(ProviderTrace) => HandlesSet = {}
           /\ ~Decoded => NewCalls = {}
           /\ NewCalls = {} => HandlesSet = {}

\* an explicit empty username hides the environment's and Configure fails
C8_Witness ==
    /\ Configured
    /\ config.Username = Known("")
    /\ env.LOOPIA_USERNAME # ""
    /\ Resolved(config.Password, env.LOOPIA_PASSWORD) # ""
    /\ ~IsUnknown(config.Password)
    /\ AttributeErrors = {<<"Missing Loopia API Username", "username">>}
    /\ NewCalls = {}
    /\ HandlesSet = {}

----------------------------------------------------------------------------
(* Properties of one handler invocation as a step: what the service and    *)
(* the state were before it and what they are after it.                     *)

\* the step is an invocation of handler op
Invokes(op) == resp = Idle /\ resp'.op = op

\* C11: subdomain Update, for every prior state and plan, makes no client
\* call, raises no diagnostic, writes or removes no state, and leaves the
\* local state, the remote subdomains and the remote records as they were.
C11_SubdomainUpdateIsNoOp ==
    [][Invokes("subdomain.Update")
          => /\ resp'.trace = <<>>
             /\ subState' = subState
             /\ remoteSubdomains' = remoteSubdomains
             /\ remoteRecords' = remoteRecords
             /\ nextId' = nextId]_vars

\* Update was asked to change the domain or the name and nothing changed
C11_Witness ==
    /\ resp.op = "subdomain.Update"
    /\ resp.plan # resp.prior
    /\ subState = resp.prior
    /\ subState # Absent
    /\ <<subState[1].Domain, subState[1].Subdomain>> \in remoteSubdomains

\* the client calls of an event list, and whether the handler got past the
\* decoding of its request
ClientCalls(trace) ==
    {i \in 1..Len(trace) : trace[i].ev \notin {"error", "State.Set", "State.RemoveResource"}}
DecodedRequest(trace) ==
    \A i \in Events(trace, "error") :
        trace[i].args[1] \notin {"Plan.Get", "State.Get", "Config.Get"}

\* C12: Delete of a zone record or of a subdomain, once its state is
\* decoded, makes exactly one client call, the remove call for the domain,
\* subdomain (and identifier) held in state.  When the call succeeds the
\* remote data lose exactly that one entity, nothing else changes, and the
\* resource leaves the state; when it fails an error is reported, the
\* resource stays in state as it was and the remote data are unchanged.
C12_DeleteRemovesExactlyItsEntity ==
    [][/\ Invokes("zone.Delete") =>
            LET t == resp'.trace
                prior == zoneState[resp'.res][1]
                id == int64(ValueInt32(prior.Record.RecordId))
                target == {e \in remoteRecords :
                             /\ e.Domain = prior.Domain
                             /\ e.Subdomain = prior.Subdomain
                             /\ e.Rec.ID = id}
            IN /\ remoteSubdomains' = remoteSubdomains
               /\ DecodedRequest(t) =>
                     /\ Cardinality(ClientCalls(t)) = 1
                     /\ t[1] = Call("RemoveZoneRecord",
                                    <<prior.Domain, prior.Subdomain, id>>, t[1].result)
                     /\ t[1].result # Absent =>
                           /\ ~HasError(t)
                           /\ Cardinality(target) = 1
                           /\ remoteRecords' = remoteRecords \ target
                           /\ zoneState' = [zoneState EXCEPT ![resp'.res] = Absent]
                     /\ t[1].result = Absent =>
                           /\ HasError(t)
                           /\ zoneState' = zoneState
                           /\ remoteRecords' = remoteRecords
       /\ Invokes("subdomain.Delete") =>
            LET t == resp'.trace
                prior == subState[1]
                target == <<prior.Domain, prior.Subdomain>>
            IN /\ remoteRecords' = remoteRecords
               /\ DecodedRequest(t) =>
                     /\ Cardinality(ClientCalls(t)) = 1
                     /\ t[1] = Call("RemoveSubDomain", target, t[1].result)
                     /\ t[1].result # Absent =>
                           /\ ~HasError(t)
                           /\ target \in remoteSubdomains
                           /\ remoteSubdomains' = remoteSubdomains \ {target}
                           /\ subState' = Absent
                     /\ t[1].result = Absent =>
                           /\ HasError(t)
                           /\ subState' = subState
                           /\ remoteSubdomains' = remoteSubdomains
      ]_vars

\* a zone record was deleted and the other record of the service is there
C12_Witness ==
    /\ resp.op = "zone.Delete"
    /\ Result("RemoveZoneRecord") # Absent
    /\ zoneState[resp.res] = Absent
    /\ resp.prior # Absent
    /\ remoteRecords # {}
    /\ \A e \in remoteRecords : e.Rec.ID # Args("RemoveZoneRecord")[3]

----------------------------------------------------------------------------
(* Properties of the list data sources, read from the last response *)

\* what a data source wrote as its output
Output == ResponseState(resp.trace, Absent)[1]

\* C13: when its listing call succeeds, the zone-record-list data source
\* writes one output entry for each entry of the listing, in the listing's
\* order, with the type, value, ttl, priority and identifier of that entry,
\* and the subdomain-list data source writes the names of the listing's
\* entries, one for each and in the listing's order.
C13_ListsProjectTheListing ==
    /\ (resp.op = "zone_records.Read" /\ Result("GetZoneRecords") # Absent)
          => /\ ~HasError(resp.trace)
             /\ Wrote(resp.trace)
             /\ Output.Domain = resp.plan[1].Domain
             /\ Output.Subdomain = resp.plan[1].Subdomain
             /\ Len(Output.ZoneRecords) = Len(Listing)
             /\ \A i \in DOMAIN Listing :
                   /\ DOMAIN Output.ZoneRecords[i]
                         = {"Type", "Ttl", "Priority", "Value", "RecordId"}
                   /\ toClientRecord(Output.ZoneRecords[i]) = Listing[i]
    /\ (resp.op = "subdomains.Read" /\ Result("GetSubdomains") # Absent)
          => /\ ~HasError(resp.trace)
             /\ Wrote(resp.trace)
             /\ Output.Domain = resp.plan[1].Domain
             /\ Len(Output.Subdomains) = Len(Result("GetSubdomains")[1])
             /\ \A i \in DOMAIN Output.Subdomains :
                   Output.Subdomains[i] = Result("GetSubdomains")[1][i].Name

\* a listing of two different records, the younger one first
C13_Witness ==
    /\ resp.op = "zone_records.Read"
    /\ Result("GetZoneRecords") # Absent
    /\ Len(Listing) = 2
    /\ Listing[1].ID = int64(2)
    /\ Listing[2].ID = int64(1)
    /\ ~SameTuple(Listing[1], Listing[2])
    /\ Len(Output.ZoneRecords) = 2
    /\ Output.ZoneRecords[1].RecordId = Known(int32(int64(2)))

----------------------------------------------------------------------------
(* Further properties of the zone-record resource, read from the last      *)
(* response                                                                 *)

FirstMatch == CHOOSE i \in MatchingEntries : \A j \in MatchingEntries : i <= j

\* C14: when the listing fetched by zone-record Create holds entries equal
\* to the submitted tuple, Create succeeds and the identifier in state is
\* that of the first of them in the listing's order, whichever identifiers
\* the others carry and whichever of them is the newest.
C14_FirstMatchInListingOrder ==
    (CreateListed /\ MatchingEntries # {})
        => /\ ~HasError(resp.trace)
           /\ zoneState[resp.res] # Absent
           /\ zoneState[resp.res][1].Record.RecordId
                 = Known(int32(Listing[FirstMatch].ID))
           /\ int64(ValueInt32(zoneState[resp.res][1].Record.RecordId))
                 = Listing[FirstMatch].ID

\* two matches, the older record listed first, and the older one is adopted
C14_Witness ==
    /\ CreateListed
    /\ MatchingEntries = {1, 2}
    /\ Listing[1].ID = int64(1)
    /\ Listing[2].ID = int64(2)
    /\ zoneState[resp.res] # Absent
    /\ zoneState[resp.res][1].Record.RecordId = Known(1)

\* the names of the client calls of the last invocation, in order
CallNames ==
    LET calls == ClientCalls(resp.trace)
    IN [k \in 1..Cardinality(calls) |->
          resp.trace[CHOOSE i \in calls : Cardinality({j \in calls : j <= i}) = k].ev]
IsPrefix(s, t) == Len(s) <= Len(t) /\ \A i \in DOMAIN s : s[i] = t[i]

\* C15: in one invocation of any handler no client call is made twice and
\* no client call follows one that returned an error; zone-record Create
\* calls add and then list, zone-record Update calls update and then fetch,
\* and every other handler makes at most one call.
C15_NoRetry ==
    /\ \A i, j \in ClientCalls(resp.trace) :
          /\ resp.trace[i].ev = resp.trace[j].ev => i = j
          /\ ~(resp.trace[i].result = Absent /\ i < j)
    /\ \A i \in ClientCalls(resp.trace) :
          resp.trace[i].result = Absent =>
              \E k \in Events(resp.trace, "error") : k > i
    /\ resp.op = "zone.Create" => IsPrefix(CallNames, <<"AddZoneRecord", "GetZoneRecords">>)
    /\ resp.op = "zone.Update" => IsPrefix(CallNames, <<"UpdateZoneRecord", "GetZoneRecord">>)
    /\ resp.op \notin {"zone.Create", "zone.Update"} => Len(CallNames) <= 1

\* the add call of Create failed and nothing was called after it
C15_Witness ==
    /\ resp.op = "zone.Create"
    /\ Made("AddZoneRecord")
    /\ Result("AddZoneRecord") = Absent
    /\ CallNames = <<"AddZoneRecord">>
    /\ Diagnostics(resp.trace) = <<"Error Creating Zone Record">>

\* zone-record Update whose update call succeeded and whose re-fetch failed
UpdateHalfDone ==
    /\ resp.op = "zone.Update"
    /\ Result("UpdateZoneRecord") # Absent
    /\ Made("GetZoneRecord")
    /\ Result("GetZoneRecord") = Absent
\* the records of the service with the identifier and zone of the update call
UpdatedRecords ==
    {e \in InZone(World, Args("UpdateZoneRecord")[1], Args("UpdateZoneRecord")[2]) :
        e.Rec.ID = Args("UpdateZoneRecord")[3].ID}

\* C16: when the update call of zone-record Update succeeds and the
\* re-fetch fails, Update reports the re-fetch error and nothing else, makes
\* no call after the re-fetch, writes no state, so that state holds the
\* values from before the Update, and the record at the service holds the
\* submitted values as the service stored them.
C16_UpdateIsNotRolledBack ==
    UpdateHalfDone
        => /\ Diagnostics(resp.trace) = <<"Error Refreshing Zone Record After Update">>
           /\ CallNames = <<"UpdateZoneRecord", "GetZoneRecord">>
           /\ ~Wrote(resp.trace)
           /\ zoneState[resp.res] = resp.prior
           /\ Cardinality(UpdatedRecords) = 1
           /\ \A e \in UpdatedRecords :
                 /\ e.Rec \in {Stored(Args("UpdateZoneRecord")[3], n) : n \in BOOLEAN}
                 /\ e.Rec.Type = resp.plan[1].Record.Type
                 /\ e.Rec.Value = resp.plan[1].Record.Value

\* the service holds the new type while state holds the old one
C16_Witness ==
    /\ UpdateHalfDone
    /\ zoneState[resp.res] = resp.prior
    /\ \E e \in UpdatedRecords :
          /\ e.Rec.Type = resp.plan[1].Record.Type
          /\ e.Rec.Type # zoneState[resp.res][1].Record.Type
          /\ e.Rec.ID = int64(ValueInt32(zoneState[resp.res][1].Record.RecordId))

\* the identifier a managed resource holds in state
HeldId(r) == int64(ValueInt32(zoneState[r][1].Record.RecordId))

\* C17: no two zone-record resources in state hold the same record
\* identifier, whatever Creates have succeeded on their zone.
C17_DistinctIdentifiers ==
    \A r1, r2 \in ZoneResources :
        (r1 # r2 /\ zoneState[r1] # Absent /\ zoneState[r2] # Absent)
            => HeldId(r1) # HeldId(r2)

\* C18: zone-record Update changes no record of the service other than the
\* one with the domain, subdomain and identifier of the prior state, and
\* addresses each of its client calls to the domain and subdomain of the
\* prior state, also when the plan names another domain or subdomain.
C18_UpdateAddressedByState ==
    [][Invokes("zone.Update") =>
          LET t == resp'.trace
              prior == zoneState[resp'.res][1]
              target == {e \in remoteRecords :
                           /\ e.Domain = prior.Domain
                           /\ e.Subdomain = prior.Subdomain
                           /\ e.Rec.ID = int64(ValueInt32(prior.Record.RecordId))}
          IN /\ remoteRecords \ target \subseteq remoteRecords'
             /\ \A e \in remoteRecords' \ remoteRecords :
                   /\ e.Domain = prior.Domain
                   /\ e.Subdomain = prior.Subdomain
                   /\ e.Rec.ID = int64(ValueInt32(prior.Record.RecordId))
             /\ \A i \in ClientCalls(t) :
                   /\ t[i].args[1] = prior.Domain
                   /\ t[i].args[2] = prior.Subdomain]_vars

\* zone-record Create whose add call succeeded and which then failed
CreateHalfDone ==
    /\ resp.op = "zone.Create"
    /\ Result("AddZoneRecord") # Absent
    /\ Made("GetZoneRecords")
    /\ (Result("GetZoneRecords") = Absent \/ MatchingEntries = {})
\* the managed resources that hold the identifier of record e
Trackers(e) == {r \in ZoneResources : zoneState[r] # Absent /\ HeldId(r) = e.Rec.ID}

\* C19: when the add call of zone-record Create succeeds and the listing
\* call then fails or lists no match, Create reports an error, makes no
\* call other than add and list, writes no state, and the record it added
\* is at the service, in the plan's zone, tracked by no resource in state.
C19_CreateIsNotCompensated ==
    CreateHalfDone
        => /\ HasError(resp.trace)
           /\ CallNames = <<"AddZoneRecord", "GetZoneRecords">>
           /\ ~Made("RemoveZoneRecord")
           /\ ~Wrote(resp.trace)
           /\ zoneState[resp.res] = Absent
           /\ Cardinality(AddedRecords) = 1
           /\ \A e \in AddedRecords :
                 /\ e.Domain = resp.plan[1].Domain
                 /\ e.Subdomain = resp.plan[1].Subdomain
                 /\ e.Rec.Type = Submitted.Type
                 /\ e.Rec.Value = Submitted.Value
                 /\ Trackers(e) = {}

\* the listing call failed after the add: a record nobody tracks
C19_Witness ==
    /\ CreateHalfDone
    /\ Result("GetZoneRecords") = Absent
    /\ zoneState[resp.res] = Absent
    /\ \E e \in AddedRecords : Trackers(e) = {}
    /\ \E r \in ZoneResources : zoneState[r] # Absent

\* zone-record Create of a record whose ttl and priority the configuration
\* omits (they reach Create as unknown values) got as far as its add call
OmittedCreate ==
    /\ resp.op = "zone.Create"
    /\ Made("AddZoneRecord")
    /\ IsUnknown(resp.plan[1].Record.Ttl)
    /\ IsUnknown(resp.plan[1].Record.Priority)
IsZeroEntry(rec) ==
    /\ rec.Type = resp.plan[1].Record.Type
    /\ rec.Value = resp.plan[1].Record.Value
    /\ rec.TTL = int(0)
    /\ rec.Priority = int(0)

\* C20: a zone-record Create with ttl and priority omitted submits ttl 0 and
\* priority 0; it leaves an identifier in state only if the fetched listing
\* holds an entry of the planned type and value with ttl 0 and priority 0;
\* and when the service stored the new record with another ttl or priority
\* and the listing is fetched, Create fails with the error "Unable to
\* Identify Created Record" and leaves no identifier in state.
C20_OmittedTtlAndPriority ==
    OmittedCreate
        => /\ Submitted.TTL = int(0)
           /\ Submitted.Priority = int(0)
           /\ zoneState[resp.res] # Absent
                 => /\ CreateListed
                    /\ \E i \in DOMAIN Listing : IsZeroEntry(Listing[i])
           /\ (/\ CreateListed
               /\ \E e \in AddedRecords : ~IsZeroEntry(e.Rec))
                 => /\ Diagnostics(resp.trace) = <<"Unable to Identify Created Record">>
                    /\ zoneState[resp.res] = Absent

----------------------------------------------------------------------------
(* The zone-record resource against a service whose identifiers need more  *)
(* than 32 bits: the identifier is hi * 2^31 + n for a high word hi the     *)
(* service is at.                                                           *)

WideHighs == {0, 1, 2}

InitWide ==
    /\ config = [Username |-> NullString, Password |-> NullString]
    /\ env = [LOOPIA_USERNAME |-> "environment", LOOPIA_PASSWORD |-> "environment"]
    /\ presp = Some(LoopiaProvider_Configure(config, env,
                   Outcome(TRUE, TRUE, TRUE, TRUE, FALSE, AnyOrder, AnySubOrder)))
    /\ declared = ZoneResources
    /\ remoteRecords = {}
    /\ nextId = 1
    /\ idHigh \in WideHighs
    /\ remoteSubdomains = {}
    /\ zoneState = [r \in ZoneResources |-> Absent]
    /\ subState = Absent
    /\ resp = Idle

NextWide ==
    \/ \E r \in ZoneResources : ZoneRecordCreate(r)
    \/ \E r \in ZoneResources : ZoneRecordRead(r)
    \/ \E r \in ZoneResources : ZoneRecordUpdate(r)
    \/ \E r \in ZoneResources : ZoneRecordDelete(r)
    \/ HostReturn

SpecWide == InitWide /\ [][NextWide]_vars

\* the record of the service that the last invocation put into state
Adopted ==
    IF resp.op = "zone.Create" THEN Listing[FirstMatch] ELSE Result("GetZoneRecord")[1]
\* the identifiers the service has handed out
AssignedIds == {<<idHigh, n>> : n \in 1..(nextId - 1)}

\* C21: whenever Create, Read or Update of a zone record writes state, the
\* identifier, ttl and priority in state convert back to the identifier,
\* ttl and priority of the service's record they were taken from; and the
\* identifier with which Read, Update and Delete address the service is one
\* the service has handed out.
C21_IdentifierRoundTrip ==
    /\ (resp.op \in {"zone.Create", "zone.Read", "zone.Update"} /\ Wrote(resp.trace))
          => LET st == zoneState[resp.res][1].Record
             IN /\ int64(ValueInt32(st.RecordId)) = Adopted.ID
                /\ int(ValueInt32(st.Ttl)) = Adopted.TTL
                /\ int(ValueInt32(st.Priority)) = Adopted.Priority
    /\ (resp.op = "zone.Read" /\ Made("GetZoneRecord"))
          => Args("GetZoneRecord")[3] \in AssignedIds
    /\ (resp.op = "zone.Update" /\ Made("UpdateZoneRecord"))
          => Args("UpdateZoneRecord")[3].ID \in AssignedIds
    /\ (resp.op = "zone.Delete" /\ Made("RemoveZoneRecord"))
          => Args("RemoveZoneRecord")[3] \in AssignedIds

====
